---- MODULE Spec2Model ----
(***************************************************************************)
(* Model of hbase-native-client/utils/user-util.cc: UserUtil::user_name()  *)
(* and UserUtil::compute_user_name(), called by several threads.           *)
(* Every action is one atomic step of one thread, named after the source   *)
(* line it executes.                                                       *)
(***************************************************************************)
EXTENDS Naturals, Sequences, FiniteSets

\* ---- bounds ----
NumThreads == 2
MaxCalls == 2

Threads == 1..NumThreads
NoThread == 0

\* ---- the operating system: user ids and their login names ----
Uids == {0, 1}
NameOf(u) == IF u = 0 THEN "root" ELSE "alice"
Names == {NameOf(u) : u \in Uids}
NullName == "<nullptr>"
Torn == "<torn>"
NullPasswd == [ptr |-> FALSE, pw_name |-> NullName]

VARIABLES
  init_,       \* UserUtil::init_
  user_name_,  \* UserUtil::user_name_
  m_,          \* UserUtil::m_ : the thread holding the mutex, or NoThread
  pc,          \* pc[t] : the source line thread t is about to execute
  passwd,      \* passwd[t] : the local `passwd` of compute_user_name()
  cur,         \* cur[t] : what the call in progress has done so far
  rets,        \* rets[t] : the completed calls of t, oldest first
  lookups,     \* number of getpwuid calls made so far
  successes,   \* number of getpwuid calls that returned a name
  ruid,        \* real user id of the process
  euid         \* effective user id of the process

vars == <<init_, user_name_, m_, pc, passwd, cur, rets, lookups, successes,
          ruid, euid>>
shared == <<init_, user_name_, m_>>
env == <<ruid, euid>>

NewCall == [sawInit |-> FALSE, afterSuccess |-> FALSE, locked |-> FALSE,
            looked |-> "none"]

\* State after construction: flag false, name empty, mutex free.
Init ==
  /\ init_ = FALSE
  /\ user_name_ = ""
  /\ m_ = NoThread
  /\ pc = [t \in Threads |-> "idle"]
  /\ passwd = [t \in Threads |-> NullPasswd]
  /\ cur = [t \in Threads |-> NewCall]
  /\ rets = [t \in Threads |-> << >>]
  /\ lookups = 0
  /\ successes = 0
  /\ ruid \in Uids
  /\ euid \in Uids

\* A variant of getuid() that answers the effective user id.
getuidEffective == euid

\* getuid(): the real user id.
getuid == ruid

\* getpwuid(u): each call is free to fail (NULL), to return an entry
\* without a name (pw_name NULL) or to return the entry of u with its name.
getpwuid(u) ==
  {NullPasswd,
   [ptr |-> TRUE, pw_name |-> NullName],
   [ptr |-> TRUE, pw_name |-> NameOf(u)]}

\* Whether a lookup result carries a login name (what the OS returned).
Resolved(p) == p.ptr /\ p.pw_name # NullName

\* line 51: passwd && passwd->pw_name
GotSomething(p) == p.ptr /\ p.pw_name # NullName

\* A variant of line 31 without the fast path: every call goes to the lock.
CheckInitAlwaysLock(t) ==
  /\ pc[t] = "idle"
  /\ Len(rets[t]) < MaxCalls
  /\ pc' = [pc EXCEPT ![t] = "L38"]
  /\ cur' = [cur EXCEPT ![t] = [NewCall EXCEPT !.sawInit = init_,
                                               !.afterSuccess = successes > 0]]
  /\ UNCHANGED <<shared, passwd, rets, lookups, successes, env>>

\* line 31: if (!init_) -- the start of a user_name() call.
CheckInit(t) ==
  /\ pc[t] = "idle"
  /\ Len(rets[t]) < MaxCalls
  /\ pc' = [pc EXCEPT ![t] = IF init_ THEN "L34" ELSE "L38"]
  /\ cur' = [cur EXCEPT ![t] = [NewCall EXCEPT !.sawInit = init_,
                                               !.afterSuccess = successes > 0]]
  /\ UNCHANGED <<shared, passwd, rets, lookups, successes, env>>

\* A variant of line 38 that does not wait for the mutex.
LockNoWait(t) ==
  /\ pc[t] = "L38"
  /\ m_' = t
  /\ pc' = [pc EXCEPT ![t] = "L40"]
  /\ cur' = [cur EXCEPT ![t].locked = TRUE]
  /\ UNCHANGED <<init_, user_name_, passwd, rets, lookups, successes, env>>

\* line 38: lock_guard<mutex> lock(m_) -- blocks while the mutex is held.
Lock(t) ==
  /\ pc[t] = "L38"
  /\ m_ = NoThread
  /\ m_' = t
  /\ pc' = [pc EXCEPT ![t] = "L40"]
  /\ cur' = [cur EXCEPT ![t].locked = TRUE]
  /\ UNCHANGED <<init_, user_name_, passwd, rets, lookups, successes, env>>

\* A variant of lines 40-42 without the second check of init_.
RecheckNever(t) ==
  /\ pc[t] = "L40"
  /\ pc' = [pc EXCEPT ![t] = "L48"]
  /\ UNCHANGED <<shared, passwd, cur, rets, lookups, successes, env>>

\* A variant of lines 40-42 whose early return keeps the mutex locked.
RecheckReturnLocked(t) ==
  /\ pc[t] = "L40"
  /\ pc' = [pc EXCEPT ![t] = IF init_ THEN "L34" ELSE "L48"]
  /\ UNCHANGED <<shared, passwd, cur, rets, lookups, successes, env>>

\* lines 40-42: if (init_) return;
Recheck(t) ==
  /\ pc[t] = "L40"
  /\ pc' = [pc EXCEPT ![t] = IF init_ THEN "L55" ELSE "L48"]
  /\ UNCHANGED <<shared, passwd, cur, rets, lookups, successes, env>>

\* line 48: struct passwd *passwd = getpwuid(getuid());
Lookup(t) ==
  /\ pc[t] = "L48"
  /\ \E p \in getpwuid(getuid) :
       /\ passwd' = [passwd EXCEPT ![t] = p]
       /\ successes' = IF Resolved(p) THEN successes + 1 ELSE successes
       /\ cur' = [cur EXCEPT ![t].looked =
                    IF Resolved(p) THEN "ok" ELSE "fail"]
  /\ lookups' = lookups + 1
  /\ pc' = [pc EXCEPT ![t] = "L51"]
  /\ UNCHANGED <<shared, rets, env>>

\* A variant of line 51 that sets init_ also when the lookup failed.
TestPasswdCacheFailure(t) ==
  /\ pc[t] = "L51"
  /\ pc' = [pc EXCEPT ![t] = IF GotSomething(passwd[t]) THEN "L52" ELSE "L55"]
  /\ init_' = (init_ \/ ~GotSomething(passwd[t]))
  /\ UNCHANGED <<user_name_, m_, passwd, cur, rets, lookups, successes, env>>

\* line 51: if (passwd && passwd->pw_name)
TestPasswd(t) ==
  /\ pc[t] = "L51"
  /\ pc' = [pc EXCEPT ![t] = IF GotSomething(passwd[t]) THEN "L52" ELSE "L55"]
  /\ UNCHANGED <<shared, passwd, cur, rets, lookups, successes, env>>

\* A variant of lines 52-53 that sets the flag before it stores the name.
StoreResultFlagFirst(t) ==
  \/ /\ pc[t] = "L52"
     /\ init_' = TRUE
     /\ pc' = [pc EXCEPT ![t] = "L53"]
     /\ UNCHANGED <<user_name_, m_, passwd, cur, rets, lookups, successes, env>>
  \/ /\ pc[t] = "L53"
     /\ user_name_' = passwd[t].pw_name
     /\ pc' = [pc EXCEPT ![t] = "L55"]
     /\ UNCHANGED <<init_, m_, passwd, cur, rets, lookups, successes, env>>

\* A variant of lines 52-53 that stores the name and forgets the flag.
StoreResultNoFlag(t) ==
  \/ /\ pc[t] = "L52"
     /\ user_name_' = passwd[t].pw_name
     /\ pc' = [pc EXCEPT ![t] = "L53"]
     /\ UNCHANGED <<init_, m_, passwd, cur, rets, lookups, successes, env>>
  \/ /\ pc[t] = "L53"
     /\ pc' = [pc EXCEPT ![t] = "L55"]
     /\ UNCHANGED <<init_, user_name_, m_, passwd, cur, rets, lookups,
                    successes, env>>

\* line 52: user_name_ = string{passwd->pw_name};  line 53: init_ = true;
StoreResult(t) ==
  \/ /\ pc[t] = "L52"
     /\ user_name_' = passwd[t].pw_name
     /\ pc' = [pc EXCEPT ![t] = "L53"]
     /\ UNCHANGED <<init_, m_, passwd, cur, rets, lookups, successes, env>>
  \/ /\ pc[t] = "L53"
     /\ init_' = TRUE
     /\ pc' = [pc EXCEPT ![t] = "L55"]
     /\ UNCHANGED <<user_name_, m_, passwd, cur, rets, lookups, successes, env>>

\* line 55 (and the return of line 41): ~lock_guard releases the mutex and
\* the local passwd goes out of scope.
Unlock(t) ==
  /\ pc[t] = "L55"
  /\ m_' = NoThread
  /\ passwd' = [passwd EXCEPT ![t] = NullPasswd]
  /\ pc' = [pc EXCEPT ![t] = "L34"]
  /\ UNCHANGED <<init_, user_name_, cur, rets, lookups, successes, env>>

\* The threads that are about to write user_name_ (line 52).
Writers(t) == {u \in Threads \ {t} : pc[u] = "L52"}

\* The values an unlocked read of user_name_ by t can produce: the stored
\* value, or, when the read is concurrent with a write of line 52 (a data
\* race), the old value, the new value or a torn one.
ReadUserName(t) ==
  {user_name_} \cup
  (IF Writers(t) = {} THEN {}
   ELSE {passwd[u].pw_name : u \in Writers(t)} \cup {Torn})

\* line 34: return user_name_;
Return(t) ==
  /\ pc[t] = "L34"
  /\ \E v \in ReadUserName(t) :
       rets' = [rets EXCEPT ![t] =
                  Append(@, [val |-> v, initAtRet |-> init_,
                             sawInit |-> cur[t].sawInit,
                             afterSuccess |-> cur[t].afterSuccess,
                             locked |-> cur[t].locked,
                             looked |-> cur[t].looked])]
  /\ pc' = [pc EXCEPT ![t] = "idle"]
  /\ UNCHANGED <<shared, passwd, cur, lookups, successes, env>>

Next ==
  \E t \in Threads :
    \/ CheckInit(t)
    \/ Lock(t)
    \/ Recheck(t)
    \/ Lookup(t)
    \/ TestPasswd(t)
    \/ StoreResult(t)
    \/ Unlock(t)
    \/ Return(t)

Spec == Init /\ [][Next]_vars

\* The steps of a call once it has started: each OS lookup returns and a
\* running thread is scheduled (weak fairness); a thread waiting for the
\* mutex gets it if it is free again and again (strong fairness on line 38).
\* Starting a call is the caller's choice and has no fairness.
Running(t) ==
  Recheck(t) \/ Lookup(t) \/ TestPasswd(t) \/ StoreResult(t) \/ Unlock(t)
    \/ Return(t)

FairSpec ==
  Spec /\ \A t \in Threads : WF_vars(Running(t)) /\ SF_vars(Lock(t))

\* ---- helpers for the properties ----
\* The completed calls, as <<thread, index>>, and the record of one.
Done == {c \in Threads \X (1..MaxCalls) : c[2] <= Len(rets[c[1]])}
CallOf(c) == rets[c[1]][c[2]]
\* The pairs of consecutive completed calls of one thread (by the first).
DonePairs == {c \in Done : <<c[1], c[2] + 1>> \in Done}
NextCallOf(c) == rets[c[1]][c[2] + 1]

\* C1: once init_ is true, neither init_ nor user_name_ ever changes again.
C1_OnceInitializedNeverChanges ==
  [][init_ => (init_' /\ user_name_' = user_name_)]_vars

\* C1 witness: after failed lookups one succeeded, and a thread has since
\* completed a further call that saw init_ true.
C1_Witness ==
  /\ init_
  /\ user_name_ \in Names
  /\ lookups >= 2
  /\ \E c \in Done : CallOf(c).sawInit

\* C2: no getpwuid call starts once init_ is true, and at most one lookup
\* of the process ever succeeds.
C2_NoLookupAfterInit ==
  /\ [](successes <= 1)
  /\ [][lookups' # lookups => ~init_]_vars

\* C2 witness: a thread read init_ false, acquired the mutex only after the
\* successful resolution and is leaving without a lookup.
C2_Witness ==
  \E t \in Threads :
    /\ pc[t] = "L55"
    /\ init_
    /\ successes = 1
    /\ ~cur[t].sawInit
    /\ cur[t].locked
    /\ cur[t].looked = "none"

\* C3: every call that starts after a resolution has succeeded returns the
\* name that resolution stored, so any two such calls return equal values.
C3_SameValueAfterSuccess ==
  /\ \A c \in Done :
       CallOf(c).afterSuccess =>
         /\ CallOf(c).val = user_name_
         /\ CallOf(c).val \in Names
  /\ \A c, d \in Done :
       (CallOf(c).afterSuccess /\ CallOf(d).afterSuccess) =>
         CallOf(c).val = CallOf(d).val

\* C3 witness: two different threads each completed a call that started
\* after the successful lookup, one of them before init_ was set.
C3_Witness ==
  \E c, d \in Done :
    /\ c[1] # d[1]
    /\ CallOf(c).afterSuccess /\ CallOf(d).afterSuccess
    /\ ~CallOf(c).sawInit
    /\ CallOf(d).sawInit

\* C4 as stated: two consecutive calls of one thread return the same string.
C4_TwiceSameValue ==
  \A c \in DonePairs : NextCallOf(c).val = CallOf(c).val

\* C4 amended: two consecutive calls of one thread return the same string
\* when init_ was true as the first returned, or when no lookup has
\* succeeded by the time the second has returned.
C4_TwiceSameOnceInitialized ==
  \A c \in DonePairs :
    (CallOf(c).initAtRet \/ successes = 0) =>
      NextCallOf(c).val = CallOf(c).val

\* C4 witness: a thread's first call returned with init_ true after a
\* failed and a successful lookup, and its second call has returned too.
C4_Witness ==
  \E c \in DonePairs :
    /\ CallOf(c).initAtRet
    /\ CallOf(c).looked = "fail"
    /\ CallOf(c).val \in Names
    /\ NextCallOf(c).sawInit

\* C5: a lookup that failed (NULL, or an entry without a name) leaves init_
\* false and user_name_ empty, and the call that made it returns the empty
\* string, also when other threads call concurrently.
C5_FailedLookupReturnsEmpty ==
  /\ \A t \in Threads :
       (cur[t].looked = "fail" /\ pc[t] \in {"L51", "L55"}) =>
         (~init_ /\ user_name_ = "")
  /\ \A c \in Done : CallOf(c).looked = "fail" => CallOf(c).val = ""

\* C6 as stated: no thread waits for the mutex while its holder is inside
\* the OS lookup.
C6_NeverWaitsOnLookup ==
  \A t, u \in Threads :
    ~(pc[t] = "L38" /\ m_ = u /\ pc[u] = "L48")

\* C6 amended: only a thread that read init_ false waits for the mutex,
\* and once init_ is true no thread is inside the OS lookup, so a thread
\* waits behind a lookup only while init_ is still false.
C6_WaitsOnlyWhileUninitialized ==
  /\ \A t \in Threads : pc[t] \in {"L38", "L40"} => ~cur[t].sawInit
  /\ \A u \in Threads : init_ => pc[u] # "L48"
  /\ \A t, u \in Threads :
       (pc[t] = "L38" /\ m_ = u /\ pc[u] = "L48") => ~init_

\* C6 witness: after a failed lookup, a thread that read init_ false waits
\* for the mutex while the holder is inside another OS lookup.
C6_Witness ==
  \E t, u \in Threads :
    /\ pc[t] = "L38"
    /\ m_ = u
    /\ pc[u] = "L48"
    /\ ~init_
    /\ lookups >= 1

\* C7 as stated: with different real and effective user ids, a successful
\* call returns the login name of the effective user id.
C7_ReturnsEffectiveUserName ==
  \A c \in Done :
    (CallOf(c).looked = "ok" /\ ruid # euid) => CallOf(c).val = NameOf(euid)

\* C7 amended: a successful call returns the login name the user database
\* associates with the real user id (getuid), whatever the effective one.
C7_ReturnsRealUserName ==
  \A c \in Done :
    CallOf(c).looked = "ok" => CallOf(c).val = NameOf(ruid)

\* C7 witness: real and effective ids differ and have different names,
\* and a call whose lookup succeeded has returned.
C7_Witness ==
  \E c \in Done :
    /\ ruid # euid
    /\ NameOf(ruid) # NameOf(euid)
    /\ CallOf(c).looked = "ok"
    /\ CallOf(c).val \in Names

\* C8 as stated: every call that starts while init_ is false performs a
\* fresh OS lookup.
C8_EveryUninitializedCallLooksUp ==
  \A c \in Done : ~CallOf(c).sawInit => CallOf(c).looked # "none"

\* C8 amended: a call that starts while init_ is false performs a fresh OS
\* lookup unless a lookup of another thread succeeds before it re-checks
\* init_ under the mutex; failed lookups never stop later ones, and a call
\* whose lookup succeeds sets init_ and returns the resolved name.
C8_FailureIsNeverCached ==
  /\ \A c \in Done :
       ~CallOf(c).sawInit => (CallOf(c).looked # "none" \/ successes > 0)
  /\ \A c \in Done :
       CallOf(c).looked = "ok" =>
         /\ CallOf(c).initAtRet
         /\ CallOf(c).val = user_name_
         /\ CallOf(c).val \in Names
  /\ (successes = 0 => ~init_)

\* C8 witness: a thread's first call failed its lookup, and its next call
\* looked up again, succeeded, returned the name and left init_ true.
C8_Witness ==
  \E c \in DonePairs :
    /\ CallOf(c).looked = "fail"
    /\ CallOf(c).val = ""
    /\ ~NextCallOf(c).sawInit
    /\ NextCallOf(c).looked = "ok"
    /\ NextCallOf(c).val \in Names
    /\ init_

\* C9: as long as every lookup has failed, every call has returned the
\* empty string, init_ is false and user_name_ is empty.
C9_AllLookupsFailThenEmpty ==
  successes = 0 =>
    /\ ~init_
    /\ user_name_ = ""
    /\ \A c \in Done : CallOf(c).val = ""

\* C9 witness: every lookup failed, and every thread has completed all its
\* calls, each call after a lookup of its own.
C9_Witness ==
  /\ successes = 0
  /\ \A t \in Threads : Len(rets[t]) = MaxCalls
  /\ \A c \in Done : CallOf(c).looked = "fail"
  /\ lookups = NumThreads * MaxCalls

\* C10: a call that reads init_ true at its first check goes straight to
\* the return, which yields user_name_; neither step acquires the mutex,
\* performs a lookup or changes init_, user_name_ or the mutex.
C10_FastPath ==
  [][\A t \in Threads :
       /\ (pc[t] = "idle" /\ pc'[t] # "idle" /\ init_) =>
            /\ pc'[t] = "L34"
            /\ UNCHANGED <<init_, user_name_, m_, lookups>>
       /\ (pc[t] = "L34" /\ pc'[t] # "L34" /\ cur[t].sawInit) =>
            /\ pc'[t] = "idle"
            /\ rets'[t][Len(rets'[t])].val = user_name_
            /\ ~rets'[t][Len(rets'[t])].locked
            /\ rets'[t][Len(rets'[t])].looked = "none"
            /\ UNCHANGED <<init_, user_name_, m_, lookups>>]_vars

\* C10 witness: a call that read init_ true has returned the cached name
\* while another thread held the mutex.
C10_Witness ==
  \E c \in Done :
    /\ CallOf(c).sawInit
    /\ ~CallOf(c).locked
    /\ CallOf(c).val \in Names
    /\ m_ \in Threads \ {c[1]}

\* The threads between acquiring the mutex (line 38) and releasing it.
InCompute == {t \in Threads : pc[t] \in {"L40", "L48", "L51", "L52", "L53", "L55"}}

\* C11: no data race on user_name_: no thread is at the unlocked read of
\* line 34 while another thread is at the write of line 52.
C11_NoDataRace ==
  \A t, u \in Threads :
    ~(t # u /\ pc[t] = "L34" /\ pc[u] = "L52")

\* C12: at most one thread at a time is between acquiring and releasing
\* the mutex, it is the holder m_, and so at most one getpwuid call is in
\* progress at any moment.
C12_MutualExclusion ==
  /\ Cardinality(InCompute) <= 1
  /\ \A t \in Threads : t \in InCompute <=> m_ = t
  /\ Cardinality({t \in Threads : pc[t] = "L48"}) <= 1

\* C12 witness: after an earlier lookup, a thread is inside the OS lookup
\* holding the mutex while every other thread waits for it.
C12_Witness ==
  \E t \in Threads :
    /\ pc[t] = "L48"
    /\ m_ = t
    /\ lookups >= 1
    /\ \A u \in Threads \ {t} : pc[u] = "L38"

\* C13: publication order: whenever init_ is true user_name_ already holds
\* the login name of the successful lookup, and a call that read init_
\* true at its first check is at the return with that name in user_name_
\* and has returned nothing else.
C13_PublicationOrder ==
  /\ init_ => (successes = 1 /\ user_name_ = NameOf(getuid))
  /\ \A t \in Threads :
       (pc[t] = "L34" /\ cur[t].sawInit) => user_name_ = NameOf(getuid)
  /\ \A c \in Done : CallOf(c).sawInit => CallOf(c).val = NameOf(getuid)

\* C13 witness: the resolving thread has just set init_ and still holds the
\* mutex, and another thread that read init_ true has already returned.
C13_Witness ==
  \E t \in Threads :
    /\ pc[t] = "L55"
    /\ m_ = t
    /\ cur[t].looked = "ok"
    /\ init_
    /\ \E c \in Done : c[1] # t /\ CallOf(c).sawInit

\* C14 as stated: init_ false implies user_name_ empty, and no call returns
\* a non-empty name while init_ is false.
C14_UninitializedImpliesEmpty ==
  /\ ~init_ => user_name_ = ""
  /\ \A c \in Done : ~CallOf(c).initAtRet => CallOf(c).val = ""

\* C14 amended: init_ false implies user_name_ empty except while the
\* resolving thread is between storing the name (line 52) and setting the
\* flag (line 53); a call returns a non-empty value with init_ false only
\* if its read of line 34 meets that store or that window.
C14_EmptyUnlessBetweenStoreAndFlag ==
  /\ (~init_ /\ user_name_ # "") =>
       \E u \in Threads : pc[u] = "L53" /\ m_ = u
  /\ (~init_ /\ \A u \in Threads : pc[u] # "L53") => user_name_ = ""
  /\ \A c \in Done :
       (~CallOf(c).initAtRet /\ CallOf(c).val # "") =>
         (init_ \/ \E u \in Threads \ {c[1]} : pc[u] \in {"L52", "L53"})

\* C14 witness: a thread has stored the name and not yet set the flag, and
\* a call of another thread has returned that name with init_ false.
C14_Witness ==
  \E u \in Threads :
    /\ pc[u] = "L53"
    /\ ~init_
    /\ user_name_ \in Names
    /\ \E c \in Done :
         /\ c[1] # u
         /\ ~CallOf(c).initAtRet
         /\ CallOf(c).val = user_name_

\* C15: under fair scheduling every started user_name() call eventually
\* returns, and a thread that holds the mutex eventually releases it.
C15_EveryCallReturns ==
  \A t \in Threads :
    /\ (pc[t] # "idle") ~> (pc[t] = "idle")
    /\ (m_ = t) ~> (m_ # t)

\* C15 witness: calls have returned along each path of compute_user_name()
\* (early return of line 41, failed lookup, successful lookup), the mutex
\* is free and no call is in progress.
C15_Witness ==
  /\ m_ = NoThread
  /\ \A t \in Threads : pc[t] = "idle"
  /\ \E c \in Done : CallOf(c).locked /\ CallOf(c).looked = "none"
  /\ \E c \in Done : CallOf(c).looked = "fail"
  /\ \E c \in Done : CallOf(c).looked = "ok"
====
